---- MODULE Spec2Model ----
(***************************************************************************)
(* A model of ue5osc.Communicator (src/ue5osc/__init__.py): the caller     *)
(* thread running the facade's operations, the background thread running   *)
(* BlockingOSCUDPServer.serve_forever, the Response Latch between them,    *)
(* and the engine at the other end of the two UDP sockets.                 *)
(*                                                                         *)
(* Numbers are integers: a Python float or int whose value is an integer.  *)
(* A value carries its Python type, because python-osc encodes a float as  *)
(* an OSC 'f' argument (32-bit IEEE 754) and an int as an OSC 'i'.         *)
(***************************************************************************)
EXTENDS Integers, Sequences, FiniteSets, TLC

VARIABLES
    pc,                \* where the caller thread is
    op,                \* the facade operation the caller runs or ran last
    arg,               \* its arguments
    ret,               \* the value the last completed operation returned
    callSent,          \* the send_message calls made by the operation, in order
    img_number,        \* Communicator.img_number
    scope,             \* the with-statement around the session
    exc,               \* an exception raised in the caller thread
    wire,              \* datagrams sent to the engine, not yet handled by it
    inbox,             \* datagrams sent to the local port, not yet received
    engLoc,            \* the engine: the player's location
    engRot,            \* the engine: the player's rotation
    latch,             \* the Response Latch's slot
    srv,               \* where the background receive thread is
    shutdown_request,  \* BaseServer.__shutdown_request
    is_shut_down,      \* BaseServer.__is_shut_down (an Event)
    lastDispatch,      \* what the Dispatcher did with the last packet
    sockets,           \* the server's and the client's UDP socket
    started,           \* how many receive threads have been started
    earlyStop,         \* shutdown was requested before serve_forever began
    buffered,          \* the reply was in the latch before the wait began
    prevLoc,           \* the location set by the operation just before
    garbled            \* malformed packets dropped since the last request

callerVars == <<pc, op, arg, ret, callSent, img_number, scope, exc>>
netVars == <<wire, inbox>>
engVars == <<engLoc, engRot>>
srvVars == <<srv, shutdown_request, is_shut_down>>
vars == <<pc, op, arg, ret, callSent, img_number, scope, exc, wire, inbox,
          engLoc, engRot, latch, srv, shutdown_request, is_shut_down,
          sockets, started, lastDispatch, earlyStop, buffered, prevLoc,
          garbled>>

\* What the model records about a run; the program does not hold these.
history == <<lastDispatch, earlyStop, buffered, prevLoc, garbled>>

----------------------------------------------------------------------------
(* Bounds of the model. *)

\* Datagrams in flight to the engine.
MaxWire == 2
\* Datagrams in flight to the local receive port.
MaxInbox == 1
\* save_image calls in the full model.
MaxImages == 2
\* save_image calls in the model of a fresh session that only saves images.
MaxSeq == 110
\* Malformed packets counted between two requests.
MaxGarbled == 2

----------------------------------------------------------------------------
(* Values. *)

PyFloat(n) == [t |-> "f", n |-> n, s |-> <<>>]
PyInt(n) == [t |-> "i", n |-> n, s |-> <<>>]
PyStr(chars) == [t |-> "s", n |-> 0, s |-> chars]

\* What an operation returns or the latch holds: None, a str, or a sequence.
None == [kind |-> "none", items |-> <<>>]
PyList(items) == [kind |-> "list", items |-> items]
PyString(chars) == [kind |-> "str", items |-> <<PyStr(chars)>>]

\* The significand of an IEEE 754 binary32 has 24 bits.
F32Bits == 24

Pow2(k) == 2 ^ k

Abs(n) == IF n < 0 THEN -n ELSE n

RECURSIVE UlpExp(_, _)
\* The exponent e with 2^(F32Bits-1+e) <= m < 2^(F32Bits+e), for m >= 2^F32Bits.
UlpExp(m, e) == IF m < Pow2(F32Bits + e) THEN e ELSE UlpExp(m, e + 1)

\* struct.pack(">f", x): x rounded to the nearest binary32, ties to even.
F32(n) ==
    LET m == Abs(n)
        sign == IF n < 0 THEN -1 ELSE 1
    IN  IF m < Pow2(F32Bits) THEN n
        ELSE LET ulp == Pow2(UlpExp(m, 1))
                 q == m \div ulp
                 r == m % ulp
                 up == \/ 2 * r > ulp
                       \/ 2 * r = ulp /\ q % 2 = 1
             IN  sign * ulp * (IF up THEN q + 1 ELSE q)

\* float(x): an int becomes a float (exactly, below 2^53); a float is kept.
Float(v) == PyFloat(v.n)

\* -x keeps the type of x.
Neg(v) == [v EXCEPT !.n = -v.n]

\* OscMessageBuilder: a float is written as 'f', an int as 'i', a str as 's'.
OscArg(v) == IF v.t = "f" THEN PyFloat(F32(v.n)) ELSE v

OscArgs(args) == [i \in 1..Len(args) |-> OscArg(args[i])]

Datagram(address, args) == [addr |-> address, args |-> args]

\* str(Path(directory)): trailing slashes are dropped, "" is ".".
RECURSIVE PathStr(_)
PathStr(d) ==
    IF d = <<>> THEN <<".">>
    ELSE IF Len(d) > 1 /\ d[Len(d)] = "/" THEN PathStr(SubSeq(d, 1, Len(d) - 1))
    ELSE d

DigitChars == <<"0", "1", "2", "3", "4", "5", "6", "7", "8", "9">>

RECURSIVE Digits(_)
\* The decimal digits of n >= 0, most significant first.
Digits(n) ==
    IF n < 10 THEN <<DigitChars[n + 1]>>
    ELSE Digits(n \div 10) \o <<DigitChars[(n % 10) + 1]>>

\* The field width of the format specification "06".
ImgWidth == 6

\* f"{n:06}": the digits of n, padded with zeros on the left to ImgWidth.
Format06(n) ==
    LET d == Digits(n)
    IN  IF Len(d) >= ImgWidth THEN d
        ELSE [i \in 1..(ImgWidth - Len(d)) |-> "0"] \o d

\* f"{self.path}/{self.img_number:06}"
ImagePath(dir, n) == PathStr(dir) \o <<"/">> \o Format06(n)

----------------------------------------------------------------------------
(* The inputs the caller chooses and the states the engine starts in. *)

\* A float that is no binary32: its significand needs 25 bits.
Big == Pow2(F32Bits) + 1
Amounts == {PyFloat(3), PyInt(2), PyFloat(Big)}
Yaws == {PyFloat(45), PyFloat(90)}
Locations == {<<PyFloat(1), PyFloat(2), PyFloat(3)>>,
              <<PyFloat(Big), PyFloat(-5), PyFloat(0)>>,
              <<PyInt(7), PyInt(8), PyInt(9)>>}
Filenames == {<<"a">>}
Directory == <<"d", "/">>
ProjectName == <<"M", "a", "z", "e">>
EngineLocations == {<<PyFloat(0), PyFloat(0), PyFloat(0)>>}
EngineRotations == {<<PyFloat(10), PyFloat(20), PyFloat(30)>>,
                    <<PyFloat(1), PyFloat(2), PyFloat(3)>>}

----------------------------------------------------------------------------
(* Construction. *)

\* Communicator.__init__ and init_osc: the counter is 0, the server is bound
\* and its thread started; Thread.start() returns once the thread is alive,
\* possibly before serve_forever has run its first statement.
Init ==
    /\ pc = "idle"
    /\ op = "__init__"
    /\ arg = <<>>
    /\ ret = None
    /\ callSent = <<>>
    /\ img_number = 0
    /\ scope = "none"
    /\ exc = "none"
    /\ wire = <<>>
    /\ inbox = <<>>
    /\ engLoc \in EngineLocations
    /\ engRot \in EngineRotations
    /\ latch = None
    /\ srv = "start"
    /\ shutdown_request = FALSE
    /\ is_shut_down = FALSE
    /\ lastDispatch = "none"
    /\ earlyStop = FALSE
    /\ buffered = FALSE
    /\ prevLoc = <<>>
    /\ sockets = [server |-> "bound", client |-> "open"]
    /\ started = 1
    /\ garbled = 0

\* Before Communicator(...) is called: no socket is open and no thread runs.
Unconstructed ==
    /\ pc = "new"
    /\ op = "__init__"
    /\ arg = <<>>
    /\ ret = None
    /\ callSent = <<>>
    /\ img_number = 0
    /\ scope = "none"
    /\ exc = "none"
    /\ wire = <<>>
    /\ inbox = <<>>
    /\ engLoc \in EngineLocations
    /\ engRot \in EngineRotations
    /\ latch = None
    /\ srv = "none"
    /\ shutdown_request = FALSE
    /\ is_shut_down = FALSE
    /\ lastDispatch = "none"
    /\ earlyStop = FALSE
    /\ buffered = FALSE
    /\ prevLoc = <<>>
    /\ sockets = [server |-> "none", client |-> "none"]
    /\ started = 0
    /\ garbled = 0

\* What a step of the constructor leaves alone.
ctorFrame == <<op, arg, ret, callSent, img_number, scope, wire, inbox, engLoc,
              engRot, latch, shutdown_request, is_shut_down, lastDispatch,
              earlyStop, buffered, prevLoc, garbled>>

\* The receive thread is started as soon as the server is bound.
init_osc_server_starts_thread ==
    /\ pc = "new"
    /\ sockets' = [sockets EXCEPT !.server = "bound"]
    /\ started' = started + 1
    /\ srv' = "start"
    /\ pc' = "client"
    /\ UNCHANGED <<exc, ctorFrame>>

\* init_osc, lines 32-34: BlockingOSCUDPServer binds the receive socket.
init_osc_server ==
    /\ pc = "new"
    /\ sockets' = [sockets EXCEPT !.server = "bound"]
    /\ pc' = "client"
    /\ UNCHANGED <<exc, srv, started, ctorFrame>>

\* The bind fails (the port is in use): the server's constructor closes its
\* socket and raises, and the exception leaves init_osc and __init__.
init_osc_server_raises ==
    /\ pc = "new"
    /\ sockets' = [sockets EXCEPT !.server = "closed"]
    /\ pc' = "failed"
    /\ exc' = "propagated"
    /\ UNCHANGED <<srv, started, ctorFrame>>

\* init_osc, line 35: SimpleUDPClient opens the send socket.
init_osc_client ==
    /\ pc = "client"
    /\ sockets' = [sockets EXCEPT !.client = "open"]
    /\ pc' = "thread"
    /\ UNCHANGED <<exc, srv, started, ctorFrame>>

\* Creating the client fails: the exception leaves init_osc and __init__;
\* the server stays bound until it is collected.
init_osc_client_raises ==
    /\ pc = "client"
    /\ pc' = "failed"
    /\ exc' = "propagated"
    /\ UNCHANGED <<sockets, srv, started, ctorFrame>>

\* init_osc, lines 36-37: the thread is created and started, and the
\* constructor returns the session.
init_osc_thread ==
    /\ pc = "thread"
    /\ srv' = "start"
    /\ started' = started + 1
    /\ pc' = "idle"
    /\ UNCHANGED <<exc, sockets, ctorFrame>>

\* Communicator.__init__, which ends with init_osc.
__init__ ==
    \/ init_osc_server
    \/ init_osc_server_raises
    \/ init_osc_client
    \/ init_osc_client_raises
    \/ init_osc_thread

----------------------------------------------------------------------------
(* The Response Latch. *)

\* release(value), on the receive thread: the slot takes the value.
release(value) == latch' = value

\* await_value(), on the caller thread: blocks while the slot is empty, then
\* takes the value and clears the slot.
await_value(value) == latch # None /\ value = latch /\ latch' = None

----------------------------------------------------------------------------
(* The caller thread. *)

\* The addresses the engine answers, and the one whose payload it stores.
Requests == {"/get/project", "/get/location", "/get/rotation"}
Observed == Requests \cup {"/set/location"}

\* The caller is between two operations of a session it still uses.
Ready == pc = "idle" /\ scope # "left"

\* self.client.send_message(address, value): one datagram, built by python-osc.
\* `prior` are the datagrams the operation has sent before this one.
\* A datagram the engine answers or stores stays on the wire until the
\* engine handles it; the engine's handling of any other one (it moves the
\* player, saves an image) changes nothing the session observes, and such a
\* datagram is taken off the wire at once.
send_message(prior, address, args) ==
    /\ callSent' = Append(prior, Datagram(address, args))
    /\ IF address \in Observed
       THEN /\ Len(wire) < MaxWire
            /\ wire' = Append(wire, Datagram(address, OscArgs(args)))
       ELSE wire' = wire

\* A different dummy payload.
dummy_data_one == PyFloat(1)

\* The dummy payload of send_and_wait.
dummy_data == PyFloat(0)

\* A value left in the latch is thrown away before the request is sent.
send_and_wait_flushing(name, args, osc_address) ==
    /\ Ready
    /\ send_message(<<>>, osc_address, <<dummy_data>>)
    /\ latch' = None
    /\ pc' = "sent"
    /\ op' = name
    /\ arg' = args
    /\ ret' = None
    /\ buffered' = FALSE
    /\ garbled' = 0
    /\ prevLoc' = IF name = "get_player_location" THEN prevLoc ELSE <<>>
    /\ UNCHANGED <<img_number, scope, exc, inbox, engVars, srvVars,
                   lastDispatch, earlyStop, sockets, started>>

\* The request is sent twice.
send_and_wait_twice(name, args, osc_address) ==
    /\ Ready
    /\ Len(wire) + 2 <= MaxWire
    /\ LET request == Datagram(osc_address, <<dummy_data>>)
       IN  /\ callSent' = <<request, request>>
           /\ wire' = wire \o <<Datagram(osc_address, OscArgs(<<dummy_data>>)),
                                Datagram(osc_address, OscArgs(<<dummy_data>>))>>
    /\ pc' = "sent"
    /\ op' = name
    /\ arg' = args
    /\ ret' = None
    /\ buffered' = FALSE
    /\ garbled' = 0
    /\ prevLoc' = IF name = "get_player_location" THEN prevLoc ELSE <<>>
    /\ UNCHANGED <<img_number, scope, exc, inbox, engVars, latch, srvVars,
                   lastDispatch, earlyStop, sockets, started>>

\* send_and_wait, line 47: the request is sent.
send_and_wait(name, args, osc_address) ==
    /\ Ready
    /\ send_message(<<>>, osc_address, <<dummy_data>>)
    /\ pc' = "sent"
    /\ op' = name
    /\ arg' = args
    /\ ret' = None
    /\ buffered' = FALSE
    /\ garbled' = 0
    /\ prevLoc' = IF name = "get_player_location" THEN prevLoc ELSE <<>>
    /\ UNCHANGED <<img_number, scope, exc, inbox, engVars, latch, srvVars,
                   lastDispatch, earlyStop,
                   sockets, started>>

\* The wait empties the slot when it begins: a reply released between the
\* send and the wait is lost.
wait_for_response_clears ==
    /\ pc = "sent"
    /\ pc' = "await"
    /\ buffered' = (latch # None)
    /\ latch' = None
    /\ UNCHANGED <<op, arg, ret, callSent, img_number, scope, exc, netVars,
                   engVars, srvVars, lastDispatch, earlyStop, prevLoc,
                   sockets, started, garbled>>

\* The wait reads the slot once and returns what it finds, None when the
\* slot is empty.
wait_for_response_nonblocking ==
    /\ pc = "sent"
    /\ pc' = "idle"
    /\ ret' = latch
    /\ latch' = None
    /\ buffered' = (latch # None)
    /\ UNCHANGED <<op, arg, callSent, img_number, scope, exc, netVars,
                   engVars, srvVars, lastDispatch, earlyStop, prevLoc,
                   sockets, started, garbled>>

\* send_and_wait, line 48: wait_for_response is called.
wait_for_response ==
    /\ pc = "sent"
    /\ pc' = "await"
    /\ buffered' = (latch # None)
    /\ UNCHANGED <<op, arg, ret, callSent, img_number, scope, exc, netVars,
                   engVars, latch, srvVars, lastDispatch, earlyStop, prevLoc,
                   sockets, started, garbled>>

get_project_name == send_and_wait("get_project_name", <<>>, "/get/project")

get_player_location == send_and_wait("get_player_location", <<>>, "/get/location")

get_player_rotation == send_and_wait("get_player_rotation", <<>>, "/get/rotation")

\* The operations that return what send_and_wait returns.
RequestReply == {"get_project_name", "get_player_location", "get_player_rotation"}

\* wait_for_response returns in send_and_wait, and the operation returns it.
send_and_wait_return ==
    /\ pc = "await"
    /\ op \in RequestReply
    /\ \E value \in {latch} :
        /\ await_value(value)
        /\ ret' = value
    /\ pc' = "idle"
    /\ UNCHANGED <<op, arg, callSent, img_number, scope, exc, netVars, engVars,
                   srvVars, history,
                   sockets, started>>

\* The operation goes on to wait for a reply after its send_message.
fire_then_wait(name, args, address, payload) ==
    /\ Ready
    /\ send_message(<<>>, address, payload)
    /\ pc' = "sent"
    /\ op' = name
    /\ arg' = args
    /\ ret' = None
    /\ prevLoc' = IF name = "set_player_location" THEN args ELSE <<>>
    /\ UNCHANGED <<img_number, scope, exc, inbox, engVars, latch, srvVars,
                   lastDispatch, earlyStop, buffered,
                   sockets, started, garbled>>

\* A fire-and-forget operation: one send_message, then it returns None.
fire(name, args, address, payload) ==
    /\ Ready
    /\ send_message(<<>>, address, payload)
    /\ op' = name
    /\ arg' = args
    /\ ret' = None
    /\ prevLoc' = IF name = "set_player_location" THEN args ELSE <<>>
    /\ UNCHANGED <<pc, img_number, scope, exc, inbox, engVars, latch, srvVars,
                   lastDispatch, earlyStop, buffered,
                   sockets, started, garbled>>

\* The first two coordinates change places.
set_location_payload_swapped(x, y, z) == <<y, x, z>>

\* The payload of /set/location.
set_location_payload(x, y, z) == <<x, y, z>>

set_player_location ==
    \E loc \in Locations :
        fire("set_player_location", loc, "/set/location",
             set_location_payload(loc[1], loc[2], loc[3]))

move_forward_message(amount) == Datagram("/move/forward", <<Float(amount)>>)

\* move_backward with an address of its own and the amount as given.
move_backward_message_own(amount) == Datagram("/move/backward", <<Float(amount)>>)

move_backward_message(amount) == Datagram("/move/forward", <<Float(Neg(amount))>>)

move_forward ==
    \E amount \in Amounts \cup {Neg(a) : a \in Amounts} :
        fire("move_forward", <<amount>>, move_forward_message(amount).addr,
             move_forward_message(amount).args)

move_backward ==
    \E amount \in Amounts :
        fire("move_backward", <<amount>>, move_backward_message(amount).addr,
             move_backward_message(amount).args)

turn_left ==
    \E degree \in Amounts :
        fire("turn_left", <<degree>>, "/turn/left", <<Float(degree)>>)

turn_right ==
    \E degree \in Amounts :
        fire("turn_right", <<degree>>, "/turn/right", <<Float(degree)>>)

take_screenshot ==
    \E filename \in Filenames :
        fire("take_screenshot", <<PyStr(filename)>>, "/screenshot",
             <<PyStr(filename)>>)

\* The reset starts the image numbers afresh.
reset_to_start_counter ==
    /\ Ready
    /\ send_message(<<>>, "/reset", <<PyFloat(0)>>)
    /\ img_number' = 0
    /\ op' = "reset_to_start"
    /\ arg' = <<>>
    /\ ret' = None
    /\ prevLoc' = <<>>
    /\ UNCHANGED <<pc, scope, exc, inbox, engVars, latch, srvVars,
                   lastDispatch, earlyStop, buffered, sockets, started,
                   garbled>>

\* reset_to_start; the sleep(1) after the send only delays the return.
reset_to_start == fire("reset_to_start", <<>>, "/reset", <<PyFloat(0)>>)

\* The counter is incremented after the path is built.
save_image_late_increment(limit) ==
    /\ Ready
    /\ img_number < limit
    /\ img_number' = img_number + 1
    /\ send_message(<<>>, "/save/image",
                    <<PyStr(ImagePath(Directory, img_number))>>)
    /\ op' = "save_image"
    /\ arg' = <<>>
    /\ ret' = None
    /\ prevLoc' = <<>>
    /\ UNCHANGED <<pc, scope, exc, inbox, engVars, latch, srvVars,
                   lastDispatch, earlyStop, buffered,
                   sockets, started, garbled>>

\* save_image; the sleep(1.5) after the send only delays the return.
save_image(limit) ==
    /\ Ready
    /\ img_number < limit
    /\ img_number' = img_number + 1
    /\ send_message(<<>>, "/save/image",
                    <<PyStr(ImagePath(Directory, img_number'))>>)
    /\ op' = "save_image"
    /\ arg' = <<>>
    /\ ret' = None
    /\ prevLoc' = <<>>
    /\ UNCHANGED <<pc, scope, exc, inbox, engVars, latch, srvVars,
                   lastDispatch, earlyStop, buffered,
                   sockets, started, garbled>>

\* What iterating over a returned value yields: the items of a sequence, the
\* characters of a str.
Elements(value) ==
    IF value.kind = "str"
    THEN LET chars == value.items[1].s
         IN  [i \in 1..Len(chars) |-> PyStr(<<chars[i]>>)]
    ELSE value.items

\* set_player_yaw, line 68: the call of get_player_rotation.
set_player_yaw ==
    \E yaw \in Yaws :
        send_and_wait("set_player_yaw", <<yaw>>, "/get/rotation")

\* The first two fields of the reply are sent in the order they came in.
set_rotation_payload_in_order(rotation, yaw) == <<rotation[1], rotation[2], yaw>>

\* ue_roll, ue_pitch, _ = rotation; the payload is [ue_pitch, ue_roll, yaw].
set_rotation_payload(rotation, yaw) ==
    LET ue_roll == rotation[1]
        ue_pitch == rotation[2]
    IN  <<ue_pitch, ue_roll, yaw>>

\* An exception leaves the operation: inside a with-statement it unwinds to
\* __exit__, outside it reaches the caller.
Raise ==
    /\ pc' = IF scope = "with" THEN "unwind" ELSE "idle"
    /\ exc' = IF scope = "with" THEN "pending" ELSE "propagated"

\* The image opened from a file.
Image(file) == [kind |-> "image", items |-> <<PyStr(file)>>]

\* request_image: the file named by the counter is opened; Image.open
\* raises when the engine has not written it.
request_image ==
    /\ Ready
    /\ op' = "request_image"
    /\ arg' = <<>>
    /\ callSent' = <<>>
    /\ prevLoc' = <<>>
    /\ \/ /\ ret' = Image(ImagePath(Directory, img_number))
          /\ UNCHANGED <<pc, exc>>
       \/ /\ ret' = None
          /\ Raise
    /\ UNCHANGED <<img_number, scope, netVars, engVars, latch, srvVars,
                   sockets, started, lastDispatch, earlyStop, buffered,
                   garbled>>

\* show: plt.imshow(self.request_image()); it returns None.
show ==
    /\ Ready
    /\ op' = "show"
    /\ arg' = <<>>
    /\ callSent' = <<>>
    /\ prevLoc' = <<>>
    /\ ret' = None
    /\ \/ UNCHANGED <<pc, exc>>
       \/ Raise
    /\ UNCHANGED <<img_number, scope, netVars, engVars, latch, srvVars,
                   sockets, started, lastDispatch, earlyStop, buffered,
                   garbled>>

\* ue_roll, ue_pitch, *_ = rotation: any reply of two elements or more is
\* taken.
set_player_yaw_set_lenient ==
    /\ pc = "await"
    /\ op = "set_player_yaw"
    /\ \E value \in {latch} :
        /\ await_value(value)
        /\ IF Len(Elements(value)) >= 2
           THEN /\ send_message(callSent, "/set/rotation",
                                set_rotation_payload(Elements(value), arg[1]))
                /\ pc' = "idle"
                /\ exc' = exc
           ELSE /\ Raise
                /\ UNCHANGED <<callSent, wire>>
    /\ UNCHANGED <<op, arg, ret, img_number, scope, inbox, engVars, srvVars,
                   history, sockets, started>>

\* set_player_yaw, from the return of get_player_rotation on.
set_player_yaw_set ==
    /\ pc = "await"
    /\ op = "set_player_yaw"
    /\ \E value \in {latch} :
        /\ await_value(value)
        /\ IF Len(Elements(value)) = 3
           THEN /\ send_message(callSent, "/set/rotation",
                                set_rotation_payload(Elements(value), arg[1]))
                /\ pc' = "idle"
                /\ exc' = exc
           ELSE /\ Raise
                /\ UNCHANGED <<callSent, wire>>
    /\ UNCHANGED <<op, arg, ret, img_number, scope, inbox, engVars, srvVars,
                   history,
                   sockets, started>>

----------------------------------------------------------------------------
(* Closing, and the with-statement. *)

\* BaseServer.shutdown(), its first statement.
shutdown ==
    /\ shutdown_request' = TRUE
    /\ earlyStop' = (earlyStop \/ srv = "start")

\* close_osc, up to the wait in self.server.shutdown().
close_osc ==
    /\ Ready
    /\ shutdown
    /\ pc' = "shutdown"
    /\ op' = "close_osc"
    /\ arg' = <<>>
    /\ ret' = None
    /\ callSent' = <<>>
    /\ prevLoc' = <<>>
    /\ UNCHANGED <<img_number, scope, exc, netVars, engVars, latch, srv,
                   is_shut_down, lastDispatch, buffered,
                   sockets, started, garbled>>

\* close_osc is called on another thread while the caller waits for a reply;
\* that thread's own waits change nothing of the session.
close_osc_elsewhere ==
    /\ pc \in {"sent", "await"}
    /\ shutdown
    /\ UNCHANGED <<callerVars, netVars, engVars, latch, srv, is_shut_down,
                   sockets, started, lastDispatch, buffered, prevLoc, garbled>>

\* The wait for the event clears it when it returns.
shutdown_return_clears ==
    /\ pc = "shutdown"
    /\ is_shut_down
    /\ is_shut_down' = FALSE
    /\ pc' = "join"
    /\ UNCHANGED <<op, arg, ret, callSent, img_number, scope, exc, netVars,
                   engVars, latch, srv, shutdown_request, history, sockets,
                   started>>

\* self.__is_shut_down.wait() returns, and shutdown() with it.
shutdown_return ==
    /\ pc = "shutdown"
    /\ is_shut_down
    /\ pc' = "join"
    /\ UNCHANGED <<op, arg, ret, callSent, img_number, scope, exc, netVars,
                   engVars, latch, srvVars, history,
                   sockets, started>>

\* __exit__ returns a true value.
exit_suppresses_true == TRUE

\* __exit__ returns None: the with-statement does not suppress the exception.
exit_suppresses == FALSE

\* close_osc returns without waiting for the thread to end.
join_without_waiting ==
    /\ pc = "join"
    /\ pc' = "idle"
    /\ IF op = "__exit__"
       THEN /\ scope' = "left"
            /\ exc' = IF exc = "pending" /\ ~exit_suppresses
                      THEN "propagated" ELSE "none"
       ELSE UNCHANGED <<scope, exc>>
    /\ UNCHANGED <<op, arg, ret, callSent, img_number, netVars, engVars,
                   latch, srvVars, history,
                   sockets, started>>

\* self.server_thread.join() returns, close_osc with it, and __exit__ with
\* close_osc when it made the call.
join ==
    /\ pc = "join"
    /\ srv = "dead"
    /\ pc' = "idle"
    /\ IF op = "__exit__"
       THEN /\ scope' = "left"
            /\ exc' = IF exc = "pending" /\ ~exit_suppresses
                      THEN "propagated" ELSE "none"
       ELSE UNCHANGED <<scope, exc>>
    /\ UNCHANGED <<op, arg, ret, callSent, img_number, netVars, engVars,
                   latch, srvVars, history,
                   sockets, started>>

\* __enter__ sets the transport up once more and starts another thread.
enter_starts_thread ==
    /\ pc = "idle"
    /\ scope = "none"
    /\ op = "__init__"
    /\ scope' = "with"
    /\ started' = started + 1
    /\ srv' = "start"
    /\ UNCHANGED <<pc, op, arg, ret, callSent, img_number, exc, netVars,
                   engVars, latch, shutdown_request, is_shut_down, history,
                   sockets>>

\* with Communicator(...) as session: __enter__ returns the session.
__enter__ ==
    /\ pc = "idle"
    /\ scope = "none"
    /\ op = "__init__"
    /\ scope' = "with"
    /\ UNCHANGED <<pc, op, arg, ret, callSent, img_number, exc, netVars,
                   engVars, latch, srvVars, history,
                   sockets, started>>

\* The body of the with-statement raises between two operations.
body_raises ==
    /\ pc = "idle"
    /\ scope = "with"
    /\ pc' = "unwind"
    /\ exc' = "pending"
    /\ UNCHANGED <<op, arg, ret, callSent, img_number, scope, netVars,
                   engVars, latch, srvVars, history,
                   sockets, started>>

\* __exit__, at the end of the body or with an exception: it calls close_osc.
__exit__ ==
    /\ scope = "with"
    /\ pc \in {"idle", "unwind"}
    /\ shutdown
    /\ pc' = "shutdown"
    /\ op' = "__exit__"
    /\ arg' = <<>>
    /\ ret' = None
    /\ callSent' = <<>>
    /\ prevLoc' = <<>>
    /\ UNCHANGED <<img_number, scope, exc, netVars, engVars, latch, srv,
                   is_shut_down, lastDispatch, buffered,
                   sockets, started, garbled>>

----------------------------------------------------------------------------
(* The Dispatcher and the background receive thread. *)

\* The addresses a handler is registered for: the replies to the three
\* request addresses.
HandledAddresses == {"/get/project", "/get/location", "/get/rotation"}

\* The decoded payload of a packet: a lone string is a str, anything else
\* the sequence of its arguments.
Decoded(args) ==
    IF Len(args) = 1 /\ args[1].t = "s"
    THEN PyString(args[1].s)
    ELSE PyList(args)

\* Bytes that are no OSC packet: there is no address to read in them.
Malformed == [addr |-> "", args |-> <<>>]

\* The decoder can parse the packet.
WellFormed(packet) == packet.addr # ""

\* A default handler releases the latch for every address.
dispatch_default_handler(packet) ==
    /\ release(Decoded(packet.args))
    /\ lastDispatch' = "released"
    /\ garbled' = garbled

\* A packet that does not parse is handed on as an empty payload.
dispatch_releases_garbage(packet) ==
    IF ~WellFormed(packet)
    THEN /\ release(PyList(<<>>))
         /\ lastDispatch' = "released"
         /\ garbled' = garbled
    ELSE IF packet.addr \in HandledAddresses
    THEN /\ release(Decoded(packet.args))
         /\ lastDispatch' = "released"
         /\ garbled' = garbled
    ELSE /\ latch' = latch
         /\ lastDispatch' = "dropped"
         /\ garbled' = garbled

\* The Dispatcher on one packet: a packet that does not parse is dropped;
\* the handler of a matched address releases the latch with the decoded
\* payload; an unmatched address is dropped.
dispatch(packet) ==
    IF ~WellFormed(packet)
    THEN /\ latch' = latch
         /\ lastDispatch' = "malformed"
         /\ garbled' = IF garbled < MaxGarbled THEN garbled + 1 ELSE garbled
    ELSE IF packet.addr \in HandledAddresses
    THEN /\ release(Decoded(packet.args))
         /\ lastDispatch' = "released"
         /\ garbled' = garbled
    ELSE /\ latch' = latch
         /\ lastDispatch' = "dropped"
         /\ garbled' = garbled

\* serve_forever begins: self.__is_shut_down.clear().
serve_forever ==
    /\ srv = "start"
    /\ is_shut_down' = FALSE
    /\ srv' = "while"
    /\ UNCHANGED <<callerVars, netVars, engVars, latch, shutdown_request,
                   history,
                   sockets, started>>

\* while not self.__shutdown_request: on to selector.select(poll_interval).
serve_while ==
    /\ srv = "while"
    /\ srv' = IF shutdown_request THEN "finally" ELSE "select"
    /\ UNCHANGED <<callerVars, netVars, engVars, latch, shutdown_request,
                   is_shut_down, history,
                   sockets, started>>

\* select returns, ready or after poll_interval: break on a shutdown request,
\* else handle the packet that is ready, if any.
serve_select ==
    /\ srv = "select"
    /\ IF shutdown_request
       THEN /\ srv' = "finally"
            /\ UNCHANGED <<inbox, latch, lastDispatch, garbled>>
       ELSE /\ srv' = "while"
            /\ IF inbox # <<>>
               THEN /\ dispatch(Head(inbox))
                    /\ inbox' = Tail(inbox)
               ELSE UNCHANGED <<inbox, latch, lastDispatch, garbled>>
    /\ UNCHANGED <<callerVars, wire, engVars, shutdown_request, is_shut_down,
                   earlyStop, buffered, prevLoc,
                   sockets, started>>

\* finally: self.__shutdown_request = False
serve_finally ==
    /\ srv = "finally"
    /\ shutdown_request' = FALSE
    /\ srv' = "set"
    /\ UNCHANGED <<callerVars, netVars, engVars, latch, is_shut_down, history,
                   sockets, started>>

\* finally: self.__is_shut_down.set(); serve_forever returns.
serve_set ==
    /\ srv = "set"
    /\ is_shut_down' = TRUE
    /\ srv' = "return"
    /\ UNCHANGED <<callerVars, netVars, engVars, latch, shutdown_request,
                   history,
                   sockets, started>>

\* The thread's target has returned: the thread ends.
thread_end ==
    /\ srv = "return"
    /\ srv' = "dead"
    /\ UNCHANGED <<callerVars, netVars, engVars, latch, shutdown_request,
                   is_shut_down, history,
                   sockets, started>>

----------------------------------------------------------------------------
(* The engine. *)

\* The engine's answer to a request.
Reply(address) ==
    IF address = "/get/project" THEN Datagram(address, <<PyStr(ProjectName)>>)
    ELSE IF address = "/get/location" THEN Datagram(address, engLoc)
    ELSE Datagram(address, engRot)

\* The engine handles the next datagram: it answers a request, and stores
\* the payload of /set/location.
engine_handle ==
    /\ wire # <<>>
    /\ wire' = Tail(wire)
    /\ LET d == Head(wire)
       IN  /\ IF d.addr \in Requests
              THEN /\ Len(inbox) < MaxInbox
                   /\ inbox' = Append(inbox, Reply(d.addr))
              ELSE inbox' = inbox
           /\ engLoc' = IF d.addr = "/set/location" THEN d.args ELSE engLoc
           /\ engRot' = engRot
    /\ UNCHANGED <<callerVars, latch, srvVars, history,
                   sockets, started>>

\* A request is lost, or the engine does not answer it.
engine_ignore ==
    /\ wire # <<>>
    /\ Head(wire).addr \in Requests
    /\ wire' = Tail(wire)
    /\ UNCHANGED <<callerVars, inbox, engVars, latch, srvVars, history,
                   sockets, started>>

\* A packet with an address no handler is registered for arrives.
engine_stray ==
    /\ Len(inbox) < MaxInbox
    /\ inbox' = Append(inbox, Datagram("/other", <<PyFloat(0)>>))
    /\ UNCHANGED <<callerVars, wire, engVars, latch, srvVars, history,
                   sockets, started>>

\* Bytes that are no OSC packet arrive at the local port.
engine_malformed ==
    /\ Len(inbox) < MaxInbox
    /\ garbled < MaxGarbled
    /\ inbox' = Append(inbox, Malformed)
    /\ UNCHANGED <<callerVars, wire, engVars, latch, srvVars, history,
                   sockets, started>>

\* The engine sends a reply nobody asked for.
engine_unsolicited ==
    /\ Len(inbox) < MaxInbox
    /\ \E address \in Requests : inbox' = Append(inbox, Reply(address))
    /\ UNCHANGED <<callerVars, wire, engVars, latch, srvVars, history,
                   sockets, started>>

----------------------------------------------------------------------------
(* Specifications. *)

\* Closing a session and leaving its with-statement.
Lifecycle ==
    \/ close_osc
    \/ shutdown_return
    \/ join
    \/ __enter__
    \/ body_raises
    \/ __exit__

\* The background receive thread.
Server ==
    \/ serve_forever
    \/ serve_while
    \/ serve_select
    \/ serve_finally
    \/ serve_set
    \/ thread_end

\* The operations that wait for a reply.
Asking ==
    \/ get_project_name
    \/ get_player_location
    \/ get_player_rotation
    \/ set_player_yaw
    \/ wait_for_response
    \/ send_and_wait_return
    \/ set_player_yaw_set

\* The operations that send and return.
Telling ==
    \/ set_player_location
    \/ move_forward
    \/ move_backward
    \/ turn_left
    \/ turn_right
    \/ take_screenshot
    \/ reset_to_start
    \/ save_image(MaxImages)

\* The operations that read the saved image back.
Viewing ==
    \/ request_image
    \/ show

Next ==
    \/ Asking
    \/ Lifecycle
    \/ Server
    \/ engine_handle
    \/ engine_ignore
    \/ engine_stray
    \/ engine_unsolicited

\* The request/reply operations and the session's life cycle, with an engine
\* that may answer, stay silent, or send packets nobody asked for.
Spec == Init /\ [][Next]_vars

NextFacade ==
    \/ Asking
    \/ Telling
    \/ close_osc
    \/ shutdown_return
    \/ join
    \/ Server
    \/ engine_handle
    \/ engine_ignore

\* Every operation of the facade, with an engine that answers a request or
\* stays silent.
SpecFacade == Init /\ [][NextFacade]_vars

NextEcho ==
    \/ set_player_location
    \/ get_player_location
    \/ get_player_rotation
    \/ wait_for_response
    \/ send_and_wait_return
    \/ close_osc
    \/ shutdown_return
    \/ join
    \/ Server
    \/ engine_handle

\* A stub engine that stores the last /set/location payload, answers every
\* request once and sends nothing else.
SpecEcho == Init /\ [][NextEcho]_vars

\* The threads are scheduled, select returns after poll_interval at the
\* latest, and the stub engine answers.
FairEcho ==
    /\ SpecEcho
    /\ WF_vars(Server)
    /\ WF_vars(engine_handle)
    /\ WF_vars(wait_for_response \/ send_and_wait_return)

NextLife ==
    \/ Lifecycle
    \/ Server
    \/ engine_stray

\* A session that is started and closed and sends nothing.
SpecLife == Init /\ [][NextLife]_vars

\* The threads are scheduled, and select returns after poll_interval at the
\* latest.
FairLife ==
    /\ SpecLife
    /\ WF_vars(Server)
    /\ WF_vars(shutdown_return \/ join)

NextCtor ==
    \/ __init__
    \/ Lifecycle
    \/ Server
    \/ engine_stray

\* A session from the call of its constructor on: constructed or not,
\* closed, and sending nothing.
SpecCtor == Unconstructed /\ [][NextCtor]_vars

NextHang ==
    \/ Asking
    \/ Server
    \/ engine_handle
    \/ engine_ignore
    \/ close_osc_elsewhere

\* Requests to an engine that answers or stays silent, and a receive thread
\* that may be stopped from another thread while the caller waits.
SpecHang == Init /\ [][NextHang]_vars

NextNoise ==
    \/ get_project_name
    \/ get_player_location
    \/ get_player_rotation
    \/ wait_for_response
    \/ send_and_wait_return
    \/ close_osc
    \/ shutdown_return
    \/ join
    \/ Server
    \/ engine_handle
    \/ engine_malformed

\* Requests to an engine that answers, on a port where bytes that are no
\* OSC packet arrive as well.
SpecNoise == Init /\ [][NextNoise]_vars

\* The threads are scheduled, select returns after poll_interval at the
\* latest, and the engine answers.
FairNoise ==
    /\ SpecNoise
    /\ WF_vars(Server)
    /\ WF_vars(engine_handle)
    /\ WF_vars(wait_for_response \/ send_and_wait_return)

NextOrderly ==
    \/ Asking
    \/ set_player_location
    \/ close_osc
    \/ shutdown_return
    \/ join
    \/ Server
    \/ engine_handle

\* A single caller and an engine that answers every request once and sends
\* nothing else.
SpecOrderly == Init /\ [][NextOrderly]_vars

NextCounter ==
    \/ Asking
    \/ Telling
    \/ Viewing
    \/ close_osc
    \/ shutdown_return
    \/ join
    \/ Server
    \/ engine_handle

\* Every operation of the session, those that read the image back
\* included, with an engine that answers.
SpecCounter == Init /\ [][NextCounter]_vars

NextImg == save_image(MaxSeq)

\* A fresh session on which only save_image is called.
SpecImg == Init /\ [][NextImg]_vars

----------------------------------------------------------------------------
(* Properties. *)

\* The request address of a request/reply operation.
RequestAddress(name) ==
    CASE name = "get_project_name" -> "/get/project"
      [] name = "get_player_location" -> "/get/location"
      [] name = "get_player_rotation" -> "/get/rotation"

\* One request datagram: the address and the float 0.0.
RequestDatagram(address) ==
    [addr |-> address, args |-> <<[t |-> "f", n |-> 0, s |-> <<>>]>>]

\* C1: a request/reply operation sends exactly one datagram, to its address
\* and with the payload 0.0; it returns only when the latch holds a value,
\* and returns that value; and only the receive thread puts a value into the
\* latch, the decoded payload of the packet it received.
C1_RequestReply ==
    [][ /\ (pc = "idle" /\ pc' = "sent" /\ op' \in RequestReply)
            => /\ wire' = Append(wire, RequestDatagram(RequestAddress(op')))
               /\ callSent' = <<RequestDatagram(RequestAddress(op'))>>
        /\ (op \in RequestReply /\ pc \in {"sent", "await"} /\ pc' = "idle")
            => /\ latch # None
               /\ ret' = latch
               /\ callSent' = <<RequestDatagram(RequestAddress(op))>>
        /\ (latch' # latch /\ latch' # None)
            => /\ srv = "select"
               /\ inbox # <<>>
               /\ latch' = Decoded(Head(inbox).args)
      ]_vars

\* A request/reply operation has returned the value the receive thread
\* released.
C1_Witness ==
    /\ pc = "idle"
    /\ op = "get_player_rotation"
    /\ ret = PyList(engRot)
    /\ lastDispatch = "released"

\* The receive thread runs and has not been asked to stop.
ServerUp == srv \in {"start", "while", "select"} /\ ~shutdown_request

\* C2: a reply released between the send and the beginning of the wait stays
\* in the latch, the wait returns what the latch holds, and with an engine
\* that answers every request once the call returns, with that answer.
C2_NoLostWakeup ==
    /\ [][ /\ (pc = "sent" /\ pc' = "await") => latch' = latch
           /\ (pc = "await" /\ pc' = "idle") => (latch # None /\ ret' = latch)
         ]_vars
    /\ [](pc = "idle" /\ op \in RequestReply
            => ret = Decoded(Reply(RequestAddress(op)).args))
    /\ (pc \in {"sent", "await"} /\ ServerUp) ~> (pc = "idle" /\ ret # None)

\* The reply was released before the wait began, and the call returned it.
C2_Witness ==
    /\ pc = "idle"
    /\ op = "get_player_location"
    /\ buffered
    /\ ret = PyList(engLoc)

\* C3: set_player_yaw(y) sends /get/rotation first and nothing else until the
\* reply is there; with the reply (a, b, c) it then sends one /set/rotation
\* datagram with the payload [b, a, y], and returns.
C3_YawPayload ==
    /\ [](op = "set_player_yaw" /\ pc \in {"sent", "await"}
            => callSent = <<RequestDatagram("/get/rotation")>>)
    /\ [][ (/\ op = "set_player_yaw"
            /\ pc = "await"
            /\ pc' # "await"
            /\ latch.kind = "list"
            /\ Len(latch.items) = 3)
           => /\ pc' = "idle"
              /\ callSent' =
                    <<RequestDatagram("/get/rotation"),
                      [addr |-> "/set/rotation",
                       args |-> <<latch.items[2], latch.items[1], arg[1]>>]>>
         ]_vars

\* The reply (10.0, 20.0, 30.0) and the yaw 45.0 gave [20.0, 10.0, 45.0].
C3_Witness ==
    /\ pc = "idle"
    /\ op = "set_player_yaw"
    /\ engRot = <<PyFloat(10), PyFloat(20), PyFloat(30)>>
    /\ callSent = <<RequestDatagram("/get/rotation"),
                    [addr |-> "/set/rotation",
                     args |-> <<PyFloat(20), PyFloat(10), PyFloat(45)>>]>>

\* C4: close_osc on a session that has sent nothing returns, also when the
\* shutdown is requested before serve_forever has begun, and when it has
\* returned the receive thread has ended.
C4_StopTerminates ==
    /\ [](pc = "idle" /\ op \in {"close_osc", "__exit__"} => srv = "dead")
    /\ (pc \in {"shutdown", "join"}) ~> (pc = "idle" /\ srv = "dead")

\* close_osc has returned after a shutdown requested before the loop began.
C4_Witness ==
    /\ pc = "idle"
    /\ op = "close_osc"
    /\ earlyStop
    /\ srv = "dead"
    /\ inbox = <<>>
    /\ lastDispatch = "none"

\* C5: the with-statement is left only when the receive thread has ended,
\* at the end of its body or with an exception; an exception raised in it
\* stays pending until then and then reaches the caller.
C5_ScopeExit ==
    /\ [](scope = "left" => srv = "dead" /\ exc # "pending")
    /\ [][ /\ (scope = "with" /\ scope' = "left")
               => /\ pc = "join"
                  /\ srv = "dead"
                  /\ exc' = IF exc = "pending" THEN "propagated" ELSE "none"
           /\ exc = "pending" => exc' \in {"pending", "propagated"}
         ]_vars

\* The with-statement was left with an exception, which reached the caller.
C5_Witness ==
    /\ scope = "left"
    /\ exc = "propagated"
    /\ srv = "dead"
    /\ pc = "idle"

\* The number n written with exactly six decimal digits.
SixDigits(n) == [i \in 1..6 |-> DigitChars[((n \div (10 ^ (6 - i))) % 10) + 1]]

\* C6: each save_image call raises the counter by one, from 0, and sends one
\* /save/image datagram whose string is the working directory, a forward
\* slash, and the new counter in six zero-padded digits: the N-th call sends
\* the number N.
C6_SequenceNumbers ==
    /\ [](op = "__init__" => img_number = 0)
    /\ [](op = "save_image"
            => /\ img_number >= 1
               /\ callSent = <<[addr |-> "/save/image",
                                args |-> <<PyStr(<<"d", "/">>
                                                 \o SixDigits(img_number))>>]>>)
    /\ [][op' = "save_image" /\ <<op, img_number>> # <<op', img_number'>>
            => img_number' = img_number + 1]_vars

\* The 100th call has sent 000100.
C6_Witness ==
    /\ img_number = 100
    /\ callSent = <<[addr |-> "/save/image",
                     args |-> <<PyStr(<<"d", "/", "0", "0", "0", "1", "0", "0">>)>>]>>

\* C7: move_backward(amount) sends what move_forward(-amount) sends: one
\* datagram to /move/forward with the single float -amount.
C7_BackwardIsForward ==
    (op = "move_backward" /\ arg[1].n > 0)
        => /\ pc = "idle"
           /\ callSent = <<move_forward_message(Neg(arg[1]))>>
           /\ callSent = <<[addr |-> "/move/forward",
                            args |-> <<[t |-> "f", n |-> 0 - arg[1].n,
                                        s |-> <<>>]>>]>>

\* move_backward(2), with an int, has sent the float -2.0 to /move/forward.
C7_Witness ==
    /\ op = "move_backward"
    /\ arg = <<PyInt(2)>>
    /\ callSent = <<[addr |-> "/move/forward", args |-> <<PyFloat(-2)>>]>>

\* get_player_location has returned right after set_player_location.
RoundTripDone ==
    /\ pc = "idle"
    /\ op = "get_player_location"
    /\ prevLoc # <<>>

\* C8 as stated: get_player_location returns the triple that was set.
C8_SameTriple == RoundTripDone => ret = PyList(prevLoc)

\* n is the value of a binary32.
Representable32(n) ==
    \/ Abs(n) < 2 ^ 24
    \/ \E e \in 1..6 : Abs(n) < 2 ^ (24 + e) /\ Abs(n) % (2 ^ e) = 0

\* y is what x comes back as: an int as it is, a float as a binary32 within
\* 2^-24 of it, and as itself when it is a binary32.
ComesBackAs(x, y) ==
    /\ y.t = x.t
    /\ x.t = "i" => y.n = x.n
    /\ x.t = "f" => /\ Representable32(y.n)
                    /\ Representable32(x.n) => y.n = x.n
                    /\ Abs(y.n - x.n) * (2 ^ 24) <= Abs(x.n)

\* C8, amended: get_player_location returns three values in the order set,
\* each float rounded to 32 bits.
C8_RoundTrip ==
    RoundTripDone
        => /\ ret.kind = "list"
           /\ Len(ret.items) = 3
           /\ \A i \in 1..3 : ComesBackAs(prevLoc[i], ret.items[i])

\* A float that is no binary32 was set and came back rounded.
C8_Witness ==
    /\ RoundTripDone
    /\ prevLoc[1] = PyFloat(16777217)
    /\ ret.items[1] = PyFloat(16777216)

\* C9: when the receive thread takes a packet whose address has no handler,
\* the latch, the caller and what it is given stay as they are, and the
\* thread goes on with its loop.
C9_UnmatchedDropped ==
    [][ (/\ srv = "select"
         /\ ~shutdown_request
         /\ inbox # <<>>
         /\ Head(inbox).addr \notin {"/get/project", "/get/location",
                                     "/get/rotation"}
         /\ srv' # srv)
        => /\ inbox' = Tail(inbox)
           /\ latch' = latch
           /\ srv' = "while"
           /\ pc' = pc
           /\ ret' = ret
      ]_vars

\* An unmatched packet was dropped while the caller waits, and it still waits
\* with the loop running.
C9_Witness ==
    /\ lastDispatch = "dropped"
    /\ pc = "await"
    /\ latch = None
    /\ srv \in {"while", "select"}

\* The fire-and-forget catalog.
FireAndForget ==
    {"move_forward", "move_backward", "turn_left", "turn_right",
     "set_player_location", "set_player_yaw", "take_screenshot",
     "reset_to_start"}

\* C10 as stated: no operation of the catalog waits on the latch.
C10_CatalogNeverWaits == op \in FireAndForget => pc \notin {"sent", "await"}

\* C10, amended: the caller waits on the latch only in a request/reply
\* operation or in set_player_yaw; every other operation of the catalog has
\* returned in the step that sent its datagram; set_player_yaw returns only
\* when the latch holds a value.
C10_OnlyYawWaits ==
    /\ [](op \in FireAndForget \ {"set_player_yaw"} => pc = "idle")
    /\ [](pc \in {"sent", "await"} => op \in RequestReply \cup {"set_player_yaw"})
    /\ [][op = "set_player_yaw" /\ pc \in {"sent", "await"} /\ pc' = "idle"
            => latch # None]_vars

\* reset_to_start has returned although the engine never sent anything.
C10_Witness ==
    /\ op = "reset_to_start"
    /\ pc = "idle"
    /\ callSent = <<[addr |-> "/reset", args |-> <<PyFloat(0)>>]>>
    /\ latch = None
    /\ inbox = <<>>
    /\ lastDispatch = "none"

\* The caller is inside send_and_wait, after the send.
Waiting == pc \in {"sent", "await"}

\* C11: a call that waits for a reply ends only in a step that finds a value
\* in the latch; while the latch stays empty every step, also the stopping
\* and the end of the receive thread, leaves the caller waiting, with no
\* value returned and no exception raised; only the receive thread, taking a
\* packet, fills the latch; so a call whose latch is never filled never
\* returns and never raises.
C11_NoTimeout ==
    /\ [][(Waiting /\ pc' \notin {"sent", "await"}) => latch # None]_vars
    /\ [][(Waiting /\ latch = None /\ latch' = None)
            => /\ pc' \in {"sent", "await"}
               /\ op' = op
               /\ ret' = ret
               /\ exc' = exc]_vars
    /\ [][(latch = None /\ latch' # None)
            => (srv = "select" /\ inbox # <<>>)]_vars
    /\ []((Waiting /\ [](latch = None)) => [](Waiting /\ exc = "none"))

\* The caller waits for a reply that will not come, and the receive thread
\* has been stopped and has ended.
C11_Witness ==
    /\ pc = "await"
    /\ op = "get_project_name"
    /\ latch = None
    /\ wire = <<>>
    /\ inbox = <<>>
    /\ srv = "dead"

\* close_osc, or __exit__, has returned.
CloseReturned == pc = "idle" /\ op \in {"close_osc", "__exit__"}

\* C12: when close_osc, or the exit from the with-statement, has returned,
\* the socket the server bound to the receive port has been released.
C12_SocketReleased == CloseReturned => sockets.server # "bound"

\* C13: when the constructor fails, binding the receive socket or creating
\* the client, the exception reaches the caller, no receive thread has been
\* started, and nothing happens afterwards: there is no session to call an
\* operation on; a thread is started only with both sockets in place, and
\* the constructor returns a session only after that.
C13_FatalAtConstruction ==
    /\ [](pc = "failed" => exc = "propagated" /\ srv = "none" /\ started = 0)
    /\ [][pc = "failed"
            => UNCHANGED <<callerVars, latch, srvVars, sockets, started>>]_vars
    /\ [](started > 0 => sockets = [server |-> "bound", client |-> "open"])
    /\ [][(pc \in {"new", "client", "thread"} /\ pc' = "idle")
            => (pc = "thread" /\ exc' = "none" /\ started' = 1)]_vars

\* The bind has failed: the constructor has raised and no thread runs.
C13_Witness ==
    /\ pc = "failed"
    /\ exc = "propagated"
    /\ sockets.server = "closed"
    /\ started = 0

\* The receive thread is about to take the packet at the head of the inbox.
Receiving == srv = "select" /\ ~shutdown_request /\ inbox # <<>>

\* C14: when the receive thread takes a packet that does not parse, the
\* latch, the caller and what it is given stay as they are and the thread
\* goes on with its loop; a well-formed reply it takes is decoded and
\* released, however many malformed packets came before; and a caller that
\* waits while the thread runs gets the engine's answer.
C14_MalformedDropped ==
    /\ [][(Receiving /\ Head(inbox).addr = "" /\ srv' # srv)
            => /\ inbox' = Tail(inbox)
               /\ latch' = latch
               /\ srv' = "while"
               /\ pc' = pc
               /\ ret' = ret
               /\ exc' = exc]_vars
    /\ [][(/\ Receiving
            /\ Head(inbox).addr \in {"/get/project", "/get/location",
                                     "/get/rotation"}
            /\ srv' # srv)
            => /\ latch' = Decoded(Head(inbox).args)
               /\ srv' = "while"]_vars
    /\ (Waiting /\ ServerUp)
            ~> (/\ pc = "idle"
                /\ op \in RequestReply
                /\ ret = Decoded(Reply(RequestAddress(op)).args))

\* Two malformed packets were dropped while the caller waited, and the call
\* has returned the engine's answer.
C14_Witness ==
    /\ pc = "idle"
    /\ op = "get_player_rotation"
    /\ ret = PyList(engRot)
    /\ garbled = 2

\* C15: the counter is 0 when the constructor returns; a step that changes
\* it is a call of save_image by the caller, raises it by exactly one and is
\* no step of the receive thread; and every call of save_image raises it.
C15_CounterFrame ==
    /\ [](op = "__init__" => img_number = 0)
    /\ [][img_number' # img_number
            => /\ pc = "idle"
               /\ op' = "save_image"
               /\ img_number' = img_number + 1
               /\ <<srv, latch, inbox>> = <<srv', latch', inbox'>>]_vars
    /\ [][(op' = "save_image" /\ <<op, callSent>> # <<op', callSent'>>)
            => img_number' = img_number + 1]_vars

\* After one save_image, a request answered through the receive thread and
\* request_image, the counter is 1 and names the image opened.
C15_Witness ==
    /\ pc = "idle"
    /\ op = "request_image"
    /\ img_number = 1
    /\ ret = [kind |-> "image",
              items |-> <<PyStr(<<"d", "/", "0", "0", "0", "0", "0", "1">>)>>]
    /\ lastDispatch = "released"

\* C16: the latch keeps the payload of the last handled packet and not its
\* address; sending a request and beginning to wait leave the latch as it
\* is; a value in the latch stays until the receive thread releases another
\* or the caller takes it; and a request/reply call, whatever its address,
\* returns the value it finds in the latch.
C16_ArrivalOrder ==
    /\ [][(Receiving /\ Head(inbox).addr \in HandledAddresses /\ srv' # srv)
            => latch' = Decoded(Head(inbox).args)]_vars
    /\ [][(pc = "idle" /\ pc' = "sent") => latch' = latch]_vars
    /\ [][(pc = "sent" /\ pc' = "await") => latch' = latch]_vars
    /\ [][(latch # None /\ latch' # latch)
            => \/ Receiving /\ srv' # srv
               \/ pc = "await" /\ pc' # "await" /\ latch' = None]_vars
    /\ [][(Waiting /\ op \in RequestReply /\ pc' = "idle")
            => (latch # None /\ ret' = latch)]_vars

\* get_project_name has returned the rotation that was in the latch when
\* its wait began.
C16_Witness ==
    /\ pc = "idle"
    /\ op = "get_project_name"
    /\ buffered
    /\ ret = PyList(engRot)

\* The requests sent whose reply the caller has not taken yet: each is a
\* request on its way to the engine, a reply on its way back, or a value in
\* the latch.
InFlight ==
    Cardinality({i \in DOMAIN wire : wire[i].addr \in Requests})
        + Len(inbox)
        + (IF latch # None THEN 1 ELSE 0)

\* C17: with one caller and an engine that answers every request once and
\* sends nothing else, at most one request is in flight: exactly one while
\* the caller waits and none between two operations; and the receive thread
\* releases a value only into an empty latch.
C17_OneInFlight ==
    /\ [](InFlight <= 1)
    /\ [](Waiting => InFlight = 1)
    /\ [](pc = "idle" => InFlight = 0)
    /\ [][(latch' # latch /\ latch' # None) => latch = None]_vars

\* The rotation request of set_player_yaw is the only one in flight: its
\* reply is in the latch, and wire and inbox are empty.
C17_Witness ==
    /\ pc = "await"
    /\ op = "set_player_yaw"
    /\ Len(callSent) = 1
    /\ latch = PyList(engRot)
    /\ wire = <<>>
    /\ inbox = <<>>

\* The receive thread is in serve_forever, before its finally clause.
InLoop == srv \in {"start", "while", "select"}

\* C18: one receive thread has been started, by the constructor, and no
\* step starts another; it is in its loop when the constructor has returned,
\* leaves the loop only on a shutdown request, and a shutdown is requested
\* only by a call of close_osc, from the caller or from __exit__; once out of
\* the loop it is not started again.
C18_OneReceiveThread ==
    /\ [](started = 1)
    /\ [](op = "__init__" => InLoop /\ ~shutdown_request)
    /\ [][(InLoop /\ srv' \notin {"start", "while", "select"})
            => shutdown_request]_vars
    /\ [][(~shutdown_request /\ shutdown_request')
            => (pc' = "shutdown" /\ op' \in {"close_osc", "__exit__"})]_vars
    /\ [][InLoop \/ srv' \notin {"start", "while", "select"}]_vars

\* A session never entered as a with-statement has answered a request, and
\* its one thread is in the loop.
C18_Witness ==
    /\ pc = "idle"
    /\ scope = "none"
    /\ op = "get_player_rotation"
    /\ ret = PyList(engRot)
    /\ started = 1
    /\ srv \in {"while", "select"}
    /\ ~shutdown_request

\* The receive thread has ended: the session is closed.
Closed == srv = "dead"

\* C19: a close_osc called on a closed session, by the caller or by
\* __exit__, finds the event set and the thread ended, so neither of its two
\* waits blocks and it returns; it raises nothing, and it leaves the thread
\* ended, the event set, and the counter, the latch, the sockets and the
\* number of threads started as they were.
C19_CloseIdempotent ==
    /\ [](Closed => is_shut_down)
    /\ [][(Closed /\ pc = "idle" /\ pc' = "shutdown")
            => /\ op' \in {"close_osc", "__exit__"}
               /\ exc' = exc]_vars
    /\ [][Closed => UNCHANGED <<srv, is_shut_down, img_number, latch,
                                sockets, started>>]_vars
    /\ [][(Closed /\ pc \in {"shutdown", "join"} /\ exc = "none")
            => exc' = "none"]_vars
    /\ (Closed /\ pc \in {"shutdown", "join"}) ~> (Closed /\ pc = "idle")

\* close_osc was called inside the with-statement, and the __exit__ that
\* called it again has returned: the shutdown request of the second call is
\* still set, no loop being there to clear it.
C19_Witness ==
    /\ pc = "idle"
    /\ op = "__exit__"
    /\ scope = "left"
    /\ exc = "none"
    /\ srv = "dead"
    /\ is_shut_down
    /\ shutdown_request

\* The value is a sequence of exactly three elements: a list of three
\* arguments or a str of three characters.
ThreeElements(value) ==
    \/ value.kind = "list" /\ Len(value.items) = 3
    \/ value.kind = "str" /\ Len(value.items[1].s) = 3

\* C20: set_player_yaw sends /get/rotation first; when the value its wait
\* returns is no sequence of exactly three elements, it raises, inside a
\* with-statement or outside, and the /get/rotation request stays the only
\* datagram it has sent.
C20_BadReplyRaises ==
    /\ [](op = "set_player_yaw"
            => /\ Len(callSent) \in {1, 2}
               /\ callSent[1] = RequestDatagram("/get/rotation"))
    /\ [][(/\ op = "set_player_yaw"
            /\ pc = "await"
            /\ pc' # "await"
            /\ ~ThreeElements(latch))
            => /\ exc' = IF scope = "with" THEN "pending" ELSE "propagated"
               /\ pc' = IF scope = "with" THEN "unwind" ELSE "idle"
               /\ callSent' = <<RequestDatagram("/get/rotation")>>
               /\ wire' = wire]_vars

\* set_player_yaw was given the project name, four characters, and has
\* raised after its one datagram.
C20_Witness ==
    /\ op = "set_player_yaw"
    /\ pc = "idle"
    /\ scope = "none"
    /\ exc = "propagated"
    /\ callSent = <<RequestDatagram("/get/rotation")>>
    /\ lastDispatch = "released"

====
